---- MODULE Spec2Model ----
(***************************************************************************)
(* Model of the currency converter (src/app.py): the offline converter,    *)
(* the two cached remote lookups, and the script that a user action runs   *)
(* (convert block, then all-currencies table block).                        *)
(*                                                                         *)
(* Numbers are exact rationals in lowest terms; the code computes with     *)
(* binary floating point, whose rounding is not modelled.                  *)
(***************************************************************************)
EXTENDS Integers, Sequences, FiniteSets, TLC

VARIABLES
    rates_table,      \* the module-level dict OFFLINE_RATES
    amount,           \* widget: st.number_input("Amount")
    from_curr,        \* widget: st.selectbox("From")
    to_curr,          \* widget: st.selectbox("To")
    use_offline_only, \* widget: sidebar checkbox
    show_table,       \* widget: sidebar checkbox
    cache_minutes,    \* widget: sidebar number_input
    convert_btn,      \* st.button("Convert"): TRUE only in the run the click starts
    pc,               \* position of the running script
    api_data,         \* local of the convert block (line 104)
    convert_cache,    \* st.cache_data store of _convert_via_api
    latest_cache,     \* st.cache_data store of _fetch_latest_rates
    clock,            \* wall clock, in minutes
    out,              \* elements rendered by the current run, in order
    log,              \* calls made by the current run, in order
    fault,            \* an exception left the script uncaught
    prev_failed,      \* history: request of the last conversion whose live lookup failed
    latest_data,      \* local `data` of try_live_table (line 78)
    table_result,     \* what try_live_table returned (line 130), or that it raised
    converted,        \* what offline_convert returned (lines 97, 114), or that it raised
    runs              \* number of script runs so far

vars == << rates_table, amount, from_curr, to_curr, use_offline_only, show_table,
           cache_minutes, convert_btn, pc, api_data, convert_cache, latest_cache,
           clock, out, log, fault, prev_failed, latest_data, table_result, converted,
           runs >>

----------------------------------------------------------------------------
(* Python values: a number (exact rational n/d), None, or a non-numeric    *)
(* value such as a string.                                                 *)

RECURSIVE GCD(_, _)
GCD(a, b) == IF b = 0 THEN a ELSE GCD(b, a % b)

Num(n, d) == LET g == GCD(n, d) IN
             IF n = 0 THEN [t |-> "num", n |-> 0, d |-> 1]
                      ELSE [t |-> "num", n |-> n \div g, d |-> d \div g]
None == [t |-> "none", n |-> 0, d |-> 1]
\* a key that a JSON object does not hold (dict.get then yields None)
Absent == [t |-> "absent", n |-> 0, d |-> 1]
Str  == [t |-> "str",  n |-> 0, d |-> 1]

IsNum(v) == v.t = "num"

\* dict.get(key): None for a key that is absent
Get(v) == IF v = Absent THEN None ELSE v

\* Python truth value of `if v:`
Truthy(v) == v.t = "str" \/ (v.t = "num" /\ v.n # 0)

\* x * y on two numbers (cross-reduced first, to keep the products small)
Mul(x, y) == LET g1 == IF x.n = 0 THEN 1 ELSE GCD(x.n, y.d)
                 g2 == IF y.n = 0 THEN 1 ELSE GCD(y.n, x.d)
             IN  Num((x.n \div g1) * (y.n \div g2), (x.d \div g2) * (y.d \div g1))

\* x / y on two numbers, y /= 0
Div(x, y) == Mul(x, [t |-> "num", n |-> y.d, d |-> y.n])

----------------------------------------------------------------------------
CURRENCIES ==
    << "USD","EUR","GBP","JPY","AUD","CAD","CHF","CNY","INR","PKR","SGD","NZD",
       "SEK","NOK","RUB","BRL","ZAR","AED","SAR","MXN","TRY","HKD","IDR","THB",
       "VND","ILS" >>

Codes == { CURRENCIES[i] : i \in 1..Len(CURRENCIES) }

OfflineRateEntries ==
    << << "USD", Num(1, 1) >>,       << "EUR", Num(108, 100) >>,   << "GBP", Num(127, 100) >>,
       << "JPY", Num(68, 10000) >>,  << "AUD", Num(63, 100) >>,    << "CAD", Num(74, 100) >>,
       << "CHF", Num(109, 100) >>,   << "CNY", Num(14, 100) >>,    << "INR", Num(12, 1000) >>,
       << "PKR", Num(33, 10000) >>,  << "SGD", Num(74, 100) >>,    << "NZD", Num(59, 100) >>,
       << "SEK", Num(92, 1000) >>,   << "NOK", Num(93, 1000) >>,   << "RUB", Num(12, 1000) >>,
       << "BRL", Num(19, 100) >>,    << "ZAR", Num(49, 1000) >>,   << "AED", Num(27, 100) >>,
       << "SAR", Num(27, 100) >>,    << "MXN", Num(56, 1000) >>,   << "TRY", Num(34, 1000) >>,
       << "HKD", Num(128, 1000) >>,  << "IDR", Num(62, 1000000) >>, << "THB", Num(27, 1000) >>,
       << "VND", Num(42, 1000000) >>, << "ILS", Num(27, 100) >> >>

DictOf(entries) ==
    [ c \in { entries[i][1] : i \in 1..Len(entries) } |->
        entries[CHOOSE i \in 1..Len(entries) : entries[i][1] = c][2] ]

\* the dict with its last entry left out
OFFLINE_RATES_NoILS == DictOf(SubSeq(OfflineRateEntries, 1, Len(OfflineRateEntries) - 1))

\* the dict OFFLINE_RATES: USD per 1 unit of the currency
OFFLINE_RATES == DictOf(OfflineRateEntries)

\* Result of a call: a value, or an exception
Ok(v)  == [ok |-> TRUE,  val |-> v]
Raise  == [ok |-> FALSE, val |-> None]

\* offline_convert with the two conversions in the wrong direction
offline_convert_Swapped(table, amt, frm, to) ==
    IF frm \notin DOMAIN table \/ to \notin DOMAIN table THEN Raise
    ELSE IF table[frm].n = 0 THEN Raise
    ELSE Ok(Div(Mul(amt, table[to]), table[frm]))

\* def offline_convert(amount, frm, to), reading the dict `table`
offline_convert(table, amt, frm, to) ==
    IF frm \notin DOMAIN table THEN Raise                    \* KeyError
    ELSE LET amount_in_usd == Mul(amt, table[frm]) IN
         IF to \notin DOMAIN table THEN Raise                \* KeyError
         ELSE IF table[to].n = 0 THEN Raise                  \* ZeroDivisionError
         ELSE Ok(Div(amount_in_usd, table[to]))

\* f"{v:.4f}": the integer part and the four decimals, rounded; raises on a
\* value that is not a number
Fmt4(v) ==
    IF ~IsNum(v) THEN Raise
    ELSE LET ip  == v.n \div v.d
             r0  == v.n % v.d
             d1  == (r0 * 10) \div v.d
             r1  == (r0 * 10) % v.d
             d2  == (r1 * 10) \div v.d
             r2  == (r1 * 10) % v.d
             d3  == (r2 * 10) \div v.d
             r3  == (r2 * 10) % v.d
             d4  == (r3 * 10) \div v.d
             r4  == (r3 * 10) % v.d
             fp  == d1 * 1000 + d2 * 100 + d3 * 10 + d4
             up  == IF 2 * r4 >= v.d THEN 1 ELSE 0
             tot == fp + up
         IN  Ok(<< ip + (tot \div 10000), tot % 10000 >>)

----------------------------------------------------------------------------
(* What the remote service can answer.  kind "error": requests.get,        *)
(* raise_for_status or r.json() raised (transport error, timeout, HTTP     *)
(* status, malformed body).  kind "nondict": well-formed JSON that is not   *)
(* an object.  kind "dict": a JSON object.                                  *)

Amounts == { Num(0, 1), Num(1, 1), Num(100, 1) }

LiveRates == { Num(3, 2) }

ConvertResp(kind, result, info, rate) ==
    [kind |-> kind, result |-> result, info |-> info, rate |-> rate, date |-> "date"]

\* info: "absent" (no key), "null", or "dict" holding rate
ConvertResponses(amt) ==
    { ConvertResp("error", Absent, "absent", Absent),
      ConvertResp("nondict", Absent, "absent", Absent),
      ConvertResp("dict", Absent, "absent", Absent),
      ConvertResp("dict", None, "dict", Num(3, 2)),
      ConvertResp("dict", Str, "absent", Absent) }
    \cup { ConvertResp("dict", Mul(amt, r), "absent", Absent) : r \in LiveRates }
    \cup { ConvertResp("dict", Mul(amt, r), "null", Absent) : r \in LiveRates }
    \cup UNION { { ConvertResp("dict", Mul(amt, r), "dict", x) :
                      x \in {Absent, None, Num(0, 1), r, Str} } : r \in LiveRates }

\* the rate the service quotes for code c (1 for the first code, else not 1)
IndexOf(c) == CHOOSE i \in 1..Len(CURRENCIES) : CURRENCIES[i] = c
LiveRateOf(c) == Num(IndexOf(c) + 1, 2)

\* rates: "absent" (no key), "null", or "dict" holding map
LatestResp(kind, rates, map) ==
    [kind |-> kind, rates |-> rates, map |-> map, date |-> "date"]

NoMap == [c \in Codes |-> Absent]

\* a full mapping, except that each code of `holes` is absent, null or not a number
HoleKinds == { Absent, None, Str }
MapsWithHoles(holes) ==
    { [c \in Codes |-> IF c \in holes THEN h[c] ELSE LiveRateOf(c)] :
          h \in [holes -> HoleKinds] }

LatestResponses(holeSets) ==
    { LatestResp("error", "absent", NoMap),
      LatestResp("nondict", "absent", NoMap),
      LatestResp("dict", "absent", NoMap),
      LatestResp("dict", "null", NoMap) }
    \cup { LatestResp("dict", "dict", m) : m \in UNION { MapsWithHoles(hs) : hs \in holeSets } }

----------------------------------------------------------------------------
(* st.cache_data: a store of (key, data, stamp), one entry per key.  A     *)
(* call whose function raises stores nothing.                               *)

TTL_SECONDS == 60 * 60

Fresh(e, now, ttl) == (now - e.stamp) * 60 < ttl

CacheHits(cache, key, now, ttl) ==
    { e \in cache : e.key = key /\ Fresh(e, now, ttl) }

CacheStore(cache, key, data, now) ==
    { e \in cache : e.key # key } \cup { [key |-> key, data |-> data, stamp |-> now] }

LogEntry(op, age) == [op |-> op, age |-> age]

\* age of the entry of `key` that a miss finds expired, -1 when there is none
StaleAge(cache, key, now) ==
    IF \E e \in cache : e.key = key
    THEN now - (CHOOSE e \in cache : e.key = key).stamp
    ELSE -1

\* def try_live_convert: the check made on what _convert_via_api returned
try_live_convert(data) ==
    IF data.kind # "dict" THEN Raise                  \* data.get: AttributeError
    ELSE IF Get(data.result) = None THEN Raise        \* ValueError("No result ...")
    ELSE Ok(data)

\* def try_live_table: the part after _fetch_latest_rates returned `data`
RECURSIVE TableRows(_, _, _, _)
TableRows(amt, frm, data, i) ==
    IF i > Len(CURRENCIES) THEN Ok(<< >>)
    ELSE LET cur == CURRENCIES[i]
             r   == IF data.rates = "absent" THEN None ELSE Get(data.map[cur])
             val == IF cur = frm THEN Ok(amt)
                    ELSE IF data.rates = "null" THEN Raise     \* None.get
                    ELSE IF r = None THEN Ok(None)
                    ELSE IF ~IsNum(r) THEN Raise               \* float * str
                    ELSE Ok(Mul(amt, r))
         IN  IF ~val.ok THEN Raise
             ELSE LET rest == TableRows(amt, frm, data, i + 1) IN
                  IF ~rest.ok THEN Raise
                  ELSE Ok(<< << cur, val.val >> >> \o rest.val)

\* try_live_table leaving out the codes the answer has no rate for
try_live_table_SkipUnavailable(amt, frm, data) ==
    IF data.kind # "dict" THEN Raise
    ELSE LET rows == TableRows(amt, frm, data, 1) IN
         IF ~rows.ok THEN Raise
         ELSE Ok([date |-> data.date,
                  rows |-> SelectSeq(rows.val, LAMBDA p : p[2] # None)])

\* try_live_table taking the base currency's row from the answer like any other
try_live_table_BaseFromRates(amt, frm, data) ==
    IF data.kind # "dict" THEN Raise
    ELSE LET rows == TableRows(amt, frm, data, 1)
             r    == IF data.rates = "absent" THEN None ELSE Get(data.map[frm])
         IN  IF ~rows.ok \/ r.t = "str" THEN Raise
             ELSE Ok([date |-> data.date,
                      rows |-> [ i \in 1..Len(rows.val) |->
                                   IF rows.val[i][1] # frm THEN rows.val[i]
                                   ELSE << frm, IF r = None THEN None ELSE Mul(amt, r) >> ]])

try_live_table(amt, frm, data) ==
    IF data.kind # "dict" THEN Raise                  \* data.get: AttributeError
    ELSE LET rows == TableRows(amt, frm, data, 1) IN
         IF ~rows.ok THEN Raise
         ELSE Ok([date |-> data.date, rows |-> rows.val])

----------------------------------------------------------------------------
(* The script.  A user interaction reruns it from the top; pc names the    *)
(* block about to run.                                                      *)

widgets == << amount, from_curr, to_curr, use_offline_only, show_table, cache_minutes >>
caches  == << convert_cache, latest_cache >>

Elem(kind, source, text, rows) ==
    [kind |-> kind, source |-> source, text |-> text, rows |-> rows]

NA == << >>                                   \* the text "N/A"
Unset     == [ok |-> FALSE, val |-> Absent]   \* not assigned in this run
NoData    == ConvertResp("unset", Absent, "absent", Absent)
NoLatest  == LatestResp("unset", "absent", NoMap)
NoRequest == << >>

Request == << amount, from_curr, to_curr >>

\* lines 94-95, 101 with the offline-only test left out
ConvertBlock_AlwaysLive ==
    /\ pc = "convert"
    /\ pc' = IF ~convert_btn THEN "table" ELSE "live"
    /\ UNCHANGED << rates_table, widgets, convert_btn, api_data, caches, clock, out,
                    log, fault, prev_failed, latest_data, table_result, converted, runs >>

\* lines 94-95, 101: which branch of the convert block runs
ConvertBlock ==
    /\ pc = "convert"
    /\ pc' = IF ~convert_btn THEN "table"
             ELSE IF use_offline_only THEN "offline_only"
             ELSE "live"
    /\ UNCHANGED << rates_table, widgets, convert_btn, api_data, caches, clock, out,
                    log, fault, prev_failed, latest_data, table_result, converted, runs >>

\* lines 96-100: the offline-only conversion
OfflineOnly ==
    /\ pc = "offline_only"
    /\ LET c == offline_convert(rates_table, amount, from_curr, to_curr) IN
       /\ converted' = c
       /\ log' = Append(log, LogEntry("offline_convert", 0))
       /\ out' = IF c.ok
                 THEN Append(out, Elem("success", "offline", Fmt4(c.val).val, << >>))
                 ELSE Append(out, Elem("error", "offline", << >>, << >>))
    /\ pc' = "table"
    /\ UNCHANGED << rates_table, widgets, convert_btn, api_data, caches, clock,
                    fault, prev_failed, latest_data, table_result, runs >>

\* line 104, with try_live_convert (69-74) and the cached _convert_via_api (53-58)
LiveCallWith(data, cache, entries) ==
    LET res == try_live_convert(data) IN
    /\ convert_cache' = cache
    /\ IF res.ok
       THEN /\ api_data' = res.val
            /\ pc' = "display"
            /\ log' = log \o << LogEntry("try_live_convert", 0) >> \o entries
            /\ prev_failed' = NoRequest
       ELSE /\ api_data' = NoData
            /\ pc' = "fallback"
            /\ log' = log \o << LogEntry("try_live_convert", 0) >> \o entries
                          \o << LogEntry("try_live_convert raised", 0) >>
            /\ prev_failed' = Request

LiveCall ==
    /\ pc = "live"
    /\ LET hits == CacheHits(convert_cache, Request, clock, TTL_SECONDS) IN
       IF hits # {}
       THEN \E e \in hits :
              LiveCallWith(e.data, convert_cache,
                           << LogEntry("cached convert", clock - e.stamp) >>)
       ELSE \E resp \in ConvertResponses(amount) :
              IF resp.kind = "error"
              THEN /\ convert_cache' = convert_cache
                   /\ api_data' = NoData
                   /\ pc' = "fallback"
                   /\ log' = log \o << LogEntry("try_live_convert", 0),
                                       LogEntry("GET convert",
                                                StaleAge(convert_cache, Request, clock)),
                                       LogEntry("try_live_convert raised", 0) >>
                   /\ prev_failed' = Request
              ELSE LiveCallWith(resp, CacheStore(convert_cache, Request, resp, clock),
                                << LogEntry("GET convert",
                                            StaleAge(convert_cache, Request, clock)) >>)
    /\ UNCHANGED << rates_table, widgets, convert_btn, latest_cache, clock, out,
                    fault, latest_data, table_result, converted, runs >>

\* lines 105-110: show the live result; any exception goes to the handler at 111
LiveDisplay ==
    /\ pc = "display"
    /\ LET val  == api_data.result
           text == Fmt4(val)
           rate == IF api_data.info = "dict" THEN Get(api_data.rate) ELSE None
           live == Elem("success", "live", text.val, << >>)
       IN  IF api_data.info = "null" \/ ~text.ok
           THEN /\ out' = out                                 \* raised before line 108
                /\ pc' = "fallback"
           ELSE IF ~Truthy(rate)
           THEN /\ out' = Append(out, live)
                /\ pc' = "table"
           ELSE IF ~IsNum(rate)
           THEN /\ out' = Append(out, live)                   \* line 110 raised
                /\ pc' = "fallback"
           ELSE /\ out' = out \o << live, Elem("caption", "live", << >>, << >>) >>
                /\ pc' = "table"
    /\ UNCHANGED << rates_table, widgets, convert_btn, api_data, caches, clock, log,
                    fault, prev_failed, latest_data, table_result, converted, runs >>

\* lines 111-117 with the two codes passed to offline_convert in the wrong order
Fallback_SwappedCodes ==
    /\ pc = "fallback"
    /\ LET c == offline_convert(rates_table, amount, to_curr, from_curr) IN
       /\ converted' = c
       /\ log' = Append(log, LogEntry("offline_convert", 0))
       /\ out' = out \o << Elem("warning", "live", << >>, << >>),
                           IF c.ok
                           THEN Elem("success", "offline", Fmt4(c.val).val, << >>)
                           ELSE Elem("error", "both", << >>, << >>) >>
    /\ pc' = "table"
    /\ UNCHANGED << rates_table, widgets, convert_btn, api_data, caches, clock,
                    fault, prev_failed, latest_data, table_result, runs >>

\* lines 111-117: the handler of the live branch
Fallback ==
    /\ pc = "fallback"
    /\ LET c == offline_convert(rates_table, amount, from_curr, to_curr) IN
       /\ converted' = c
       /\ log' = Append(log, LogEntry("offline_convert", 0))
       /\ out' = out \o << Elem("warning", "live", << >>, << >>),
                           IF c.ok
                           THEN Elem("success", "offline", Fmt4(c.val).val, << >>)
                           ELSE Elem("error", "both", << >>, << >>) >>
    /\ pc' = "table"
    /\ UNCHANGED << rates_table, widgets, convert_btn, api_data, caches, clock,
                    fault, prev_failed, latest_data, table_result, runs >>

\* lines 120, 123, 128: which branch of the table block runs
TableBlock ==
    /\ pc = "table"
    /\ pc' = IF ~show_table THEN "idle"
             ELSE IF use_offline_only THEN "table_offline"
             ELSE "table_live"
    /\ UNCHANGED << rates_table, widgets, convert_btn, api_data, caches, clock, out,
                    log, fault, prev_failed, latest_data, table_result, converted, runs >>

\* lines 125-126 and 140-141: one row per code from the offline rates
RECURSIVE OfflineRows(_, _, _, _)
OfflineRows(table, amt, frm, i) ==
    IF i > Len(CURRENCIES) THEN Ok(<< >>)
    ELSE LET cur == CURRENCIES[i]
             c   == offline_convert(table, amt, frm, cur)
         IN  IF ~c.ok THEN Raise
             ELSE LET rest == OfflineRows(table, amt, frm, i + 1) IN
                  IF ~rest.ok THEN Raise
                  ELSE Ok(<< [currency |-> cur, amount |-> Fmt4(c.val).val] >> \o rest.val)

\* OfflineRows for the table as written and the amounts of the model, tabulated
OfflineRowsTable ==
    [ a \in Amounts, f \in Codes |-> OfflineRows(OFFLINE_RATES, a, f, 1) ]

OfflineRowsOf(table, amt, frm) ==
    IF table = OFFLINE_RATES /\ amt \in Amounts /\ frm \in Codes
    THEN OfflineRowsTable[amt, frm]
    ELSE OfflineRows(table, amt, frm, 1)

\* lines 132-134: the rows of try_live_table made ready for st.table
Pretty(rows) ==
    [ i \in 1..Len(rows) |->
        [currency |-> rows[i][1],
         amount   |-> IF rows[i][2] # None THEN Fmt4(rows[i][2]).val ELSE NA] ]

\* lines 124-127: the offline-only table; nothing here catches an exception
TableOffline ==
    /\ pc = "table_offline"
    /\ LET rows == OfflineRowsOf(rates_table, amount, from_curr) IN
       /\ log' = Append(log, LogEntry("offline_table", 0))
       /\ IF rows.ok
          THEN /\ out' = Append(out, Elem("table", "offline", << >>, rows.val))
               /\ fault' = fault
          ELSE /\ out' = out
               /\ fault' = TRUE
    /\ pc' = "idle"
    /\ UNCHANGED << rates_table, widgets, convert_btn, api_data, caches, clock,
                    prev_failed, latest_data, table_result, converted, runs >>

\* the codes whose rate the service may leave out or garble in the script's runs
ScriptHoleSets == { {}, {"PKR"} }
ScriptLatestResponses == LatestResponses(ScriptHoleSets)

\* try_live_table and Pretty for the answers and amounts of the model, tabulated
LiveTable ==
    [ a \in Amounts, f \in Codes, data \in ScriptLatestResponses |->
        LET res == IF data.kind = "error" THEN Raise ELSE try_live_table(a, f, data)
        IN  [res |-> res, pretty |-> IF res.ok THEN Pretty(res.val.rows) ELSE << >>] ]

TableLiveWith(data, cache, entries) ==
    LET t   == LiveTable[amount, from_curr, data]
        res == t.res
    IN
    /\ latest_cache' = cache
    /\ latest_data' = data
    /\ table_result' = res
    /\ log' = log \o << LogEntry("try_live_table", 0) >> \o entries
    /\ IF res.ok
       THEN /\ out' = out \o << Elem("table", "live", << >>, t.pretty),
                                Elem("caption", "live", << >>, << >>) >>
            /\ pc' = "idle"
       ELSE /\ out' = out
            /\ pc' = "table_fallback"

\* lines 129-136, with try_live_table (76-91) and the cached _fetch_latest_rates (46-51)
TableLive ==
    /\ pc = "table_live"
    /\ LET hits == CacheHits(latest_cache, from_curr, clock, TTL_SECONDS) IN
       IF hits # {}
       THEN \E e \in hits :
              TableLiveWith(e.data, latest_cache,
                            << LogEntry("cached latest", clock - e.stamp) >>)
       ELSE \E resp \in ScriptLatestResponses :
              IF resp.kind = "error"
              THEN /\ latest_cache' = latest_cache
                   /\ latest_data' = NoLatest
                   /\ table_result' = Raise
                   /\ log' = log \o << LogEntry("try_live_table", 0),
                                       LogEntry("GET latest",
                                                StaleAge(latest_cache, from_curr, clock)) >>
                   /\ out' = out
                   /\ pc' = "table_fallback"
              ELSE TableLiveWith(resp, CacheStore(latest_cache, from_curr, resp, clock),
                                 << LogEntry("GET latest",
                                             StaleAge(latest_cache, from_curr, clock)) >>)
    /\ UNCHANGED << rates_table, widgets, convert_btn, api_data, convert_cache, clock,
                    fault, prev_failed, converted, runs >>

\* lines 137-142: the handler of the live table; the offline rows are built
\* inside the handler, where nothing catches an exception
TableFallback ==
    /\ pc = "table_fallback"
    /\ LET rows == OfflineRowsOf(rates_table, amount, from_curr) IN
       /\ log' = Append(log, LogEntry("offline_table", 0))
       /\ IF rows.ok
          THEN /\ out' = out \o << Elem("warning", "live", << >>, << >>),
                                   Elem("table", "offline", << >>, rows.val) >>
               /\ fault' = fault
          ELSE /\ out' = Append(out, Elem("warning", "live", << >>, << >>))
               /\ fault' = TRUE
    /\ pc' = "idle"
    /\ UNCHANGED << rates_table, widgets, convert_btn, api_data, caches, clock,
                    prev_failed, latest_data, table_result, converted, runs >>

Script ==
    \/ ConvertBlock
    \/ OfflineOnly
    \/ LiveCall
    \/ LiveDisplay
    \/ Fallback
    \/ TableBlock
    \/ TableOffline
    \/ TableLive
    \/ TableFallback

----------------------------------------------------------------------------
(* One run of the script, started by a user interaction, from any setting  *)
(* of the widgets and an empty cache.                                       *)

DefaultCacheMinutes == 60

Init ==
    /\ rates_table = OFFLINE_RATES
    /\ amount \in Amounts
    /\ from_curr \in Codes
    /\ to_curr \in Codes
    /\ use_offline_only \in BOOLEAN
    /\ show_table \in BOOLEAN
    /\ cache_minutes = DefaultCacheMinutes
    /\ convert_btn \in BOOLEAN
    /\ pc = "convert"
    /\ api_data = NoData
    /\ convert_cache = {}
    /\ latest_cache = {}
    /\ clock = 0
    /\ out = << >>
    /\ log = << >>
    /\ fault = FALSE
    /\ prev_failed = NoRequest
    /\ latest_data = NoLatest
    /\ table_result = Unset
    /\ converted = Unset
    /\ runs = 1

Next == Script

Spec == Init /\ [][Next]_vars

----------------------------------------------------------------------------
(* offline_convert on its own: every pair of codes, a few amounts.         *)

OfflineAmounts == Amounts \cup { Num(1, 2), Num(5, 2), Num(1000, 1) }

InitSession ==
    /\ rates_table = OFFLINE_RATES
    /\ amount = Num(1, 1)
    /\ from_curr = "USD"
    /\ to_curr = "PKR"
    /\ use_offline_only = FALSE
    /\ show_table = FALSE
    /\ cache_minutes = DefaultCacheMinutes
    /\ convert_btn = FALSE
    /\ pc = "idle"
    /\ api_data = NoData
    /\ convert_cache = {}
    /\ latest_cache = {}
    /\ clock = 0
    /\ out = << >>
    /\ log = << >>
    /\ fault = FALSE
    /\ prev_failed = NoRequest
    /\ latest_data = NoLatest
    /\ table_result = Unset
    /\ converted = Unset
    /\ runs = 0

InitOffline ==
    /\ rates_table = OFFLINE_RATES
    /\ amount \in OfflineAmounts
    /\ from_curr \in Codes
    /\ to_curr \in Codes
    /\ use_offline_only = FALSE
    /\ show_table = FALSE
    /\ cache_minutes = DefaultCacheMinutes
    /\ convert_btn = FALSE
    /\ pc = "call_offline_convert"
    /\ api_data = NoData
    /\ convert_cache = {}
    /\ latest_cache = {}
    /\ clock = 0
    /\ out = << >>
    /\ log = << >>
    /\ fault = FALSE
    /\ prev_failed = NoRequest
    /\ latest_data = NoLatest
    /\ table_result = Unset
    /\ converted = Unset
    /\ runs = 0

\* a call offline_convert(amount, from_curr, to_curr)
OfflineConvertCall ==
    /\ pc = "call_offline_convert"
    /\ converted' = offline_convert(rates_table, amount, from_curr, to_curr)
    /\ pc' = "returned"
    /\ UNCHANGED << rates_table, widgets, convert_btn, api_data, caches, clock, out,
                    log, fault, prev_failed, latest_data, table_result, runs >>

NextOffline == OfflineConvertCall

SpecOffline == InitOffline /\ [][NextOffline]_vars

----------------------------------------------------------------------------
(* try_live_table on its own: every base code, and answers whose mapping   *)
(* leaves out, nulls or garbles any of the codes of HoleCodes.             *)

HoleCodes == { "USD", "PKR", "ILS" }
TableLatestResponses == LatestResponses(SUBSET HoleCodes)

InitTable ==
    /\ rates_table = OFFLINE_RATES
    /\ amount \in Amounts
    /\ from_curr \in Codes
    /\ to_curr = "PKR"
    /\ use_offline_only = FALSE
    /\ show_table = TRUE
    /\ cache_minutes = DefaultCacheMinutes
    /\ convert_btn = FALSE
    /\ pc = "call_try_live_table"
    /\ api_data = NoData
    /\ convert_cache = {}
    /\ latest_cache = {}
    /\ clock = 0
    /\ out = << >>
    /\ log = << >>
    /\ fault = FALSE
    /\ prev_failed = NoRequest
    /\ latest_data = NoLatest
    /\ table_result = Unset
    /\ converted = Unset
    /\ runs = 0

\* a call try_live_table(amount, from_curr) whose _fetch_latest_rates yields `data`
TryLiveTableCall ==
    /\ pc = "call_try_live_table"
    /\ \E data \in TableLatestResponses :
         /\ latest_data' = data
         /\ table_result' = IF data.kind = "error" THEN Raise
                            ELSE try_live_table(amount, from_curr, data)
    /\ pc' = "returned"
    /\ UNCHANGED << rates_table, widgets, convert_btn, api_data, caches, clock, out,
                    log, fault, prev_failed, converted, runs >>

NextTable == TryLiveTableCall

SpecTable == InitTable /\ [][NextTable]_vars

----------------------------------------------------------------------------
(* A session: the page as first loaded, then user interactions, each of    *)
(* which reruns the script, with time passing between them.                 *)

MaxRuns == 3
MaxClock == 90
TickMinutes == 30
SessionCodes == { "USD", "PKR" }
CacheMinuteChoices == { 1, 60, 1440 }

Rerun(btn) ==
    /\ pc = "idle"
    /\ runs < MaxRuns
    /\ runs' = runs + 1
    /\ convert_btn' = btn
    /\ pc' = "convert"
    /\ api_data' = NoData
    /\ out' = << >>
    /\ log' = << >>
    /\ fault' = FALSE
    /\ latest_data' = NoLatest
    /\ table_result' = Unset
    /\ converted' = Unset
    /\ UNCHANGED << rates_table, caches, clock, prev_failed >>

ClickConvert ==
    /\ Rerun(TRUE)
    /\ UNCHANGED widgets

SetAmount ==
    /\ \E a \in Amounts \ {amount} : amount' = a
    /\ Rerun(FALSE)
    /\ UNCHANGED << from_curr, to_curr, use_offline_only, show_table, cache_minutes >>

SelectFrom ==
    /\ \E c \in SessionCodes \ {from_curr} : from_curr' = c
    /\ Rerun(FALSE)
    /\ UNCHANGED << amount, to_curr, use_offline_only, show_table, cache_minutes >>

SelectTo ==
    /\ \E c \in SessionCodes \ {to_curr} : to_curr' = c
    /\ Rerun(FALSE)
    /\ UNCHANGED << amount, from_curr, use_offline_only, show_table, cache_minutes >>

ToggleOffline ==
    /\ use_offline_only' = ~use_offline_only
    /\ Rerun(FALSE)
    /\ UNCHANGED << amount, from_curr, to_curr, show_table, cache_minutes >>

ToggleTable ==
    /\ show_table' = ~show_table
    /\ Rerun(FALSE)
    /\ UNCHANGED << amount, from_curr, to_curr, use_offline_only, cache_minutes >>

SetCacheMinutes ==
    /\ \E m \in CacheMinuteChoices \ {cache_minutes} : cache_minutes' = m
    /\ Rerun(FALSE)
    /\ UNCHANGED << amount, from_curr, to_curr, use_offline_only, show_table >>

AdvanceClock ==
    /\ pc = "idle"
    /\ clock + TickMinutes <= MaxClock
    /\ clock' = clock + TickMinutes
    /\ UNCHANGED << rates_table, widgets, convert_btn, pc, api_data, caches, out, log,
                    fault, prev_failed, latest_data, table_result, converted, runs >>

NextSession ==
    \/ Script
    \/ ClickConvert
    \/ SetAmount
    \/ SelectFrom
    \/ SelectTo
    \/ ToggleOffline
    \/ ToggleTable
    \/ SetCacheMinutes
    \/ AdvanceClock

SpecSession == InitSession /\ [][NextSession]_vars

----------------------------------------------------------------------------
(* Properties.                                                             *)

Shown(kind, source) ==
    { i \in DOMAIN out : out[i].kind = kind /\ out[i].source = source }

Called(op) == { i \in DOMAIN log : log[i].op = op }

\* the convert block of the current run has finished
ConvertBlockDone ==
    pc \in { "table", "table_offline", "table_live", "table_fallback", "idle" }

\* a * table[f] / table[t], from the table as written in the source
ViaUSD(a, f, t) == Div(Mul(a, OFFLINE_RATES[f]), OFFLINE_RATES[t])

\* C1: a conversion with offline-only mode off whose live call failed
\* (transport error, malformed answer, result absent or null) reports exactly
\* one result, the value of offline_convert(amount, from, to) annotated as
\* coming from the offline rates, and no live value.
C1_FallbackReportsOffline ==
    (convert_btn /\ ~use_offline_only /\ ConvertBlockDone
        /\ Called("try_live_convert raised") # {})
    => /\ Shown("success", "live") = {}
       /\ \E i \in DOMAIN out :
            /\ Shown("success", "offline") = {i}
            /\ out[i].text = Fmt4(ViaUSD(amount, from_curr, to_curr)).val
            /\ (amount = Num(1, 1) /\ from_curr = "USD" /\ to_curr = "PKR")
                  => out[i].text = << 303, 303 >>

\* C1 witness: the answer arrived with a null result, and 1 USD was reported
\* as 303.0303 PKR from the offline rates.
C1_Witness ==
    /\ pc = "idle" /\ convert_btn /\ ~use_offline_only
    /\ amount = Num(1, 1) /\ from_curr = "USD" /\ to_curr = "PKR"
    /\ Called("try_live_convert raised") # {}
    /\ \E e \in convert_cache : e.data.kind = "dict" /\ e.data.result = None
    /\ \E i \in Shown("success", "offline") : out[i].text = << 303, 303 >>

\* C2: in offline-only mode a run issues no remote call and does not enter
\* the live lookups at all, in the convert block and in the table block.
C2_OfflineOnlyNoRemote ==
    use_offline_only =>
        /\ Called("GET convert") = {} /\ Called("GET latest") = {}
        /\ Called("try_live_convert") = {} /\ Called("try_live_table") = {}

\* C2 witness: an offline-only run that converted and showed the table.
C2_Witness ==
    /\ pc = "idle" /\ use_offline_only /\ convert_btn /\ show_table
    /\ Shown("success", "offline") # {} /\ Shown("table", "offline") # {}

\* C3: a conversion surfaces exactly one outcome (a live value, an offline
\* value, or an error), never a live value and an offline value together.
C3_OneOutcome ==
    (convert_btn /\ ConvertBlockDone) =>
        /\ ~(Shown("success", "live") # {} /\ Shown("success", "offline") # {})
        /\ Cardinality({ i \in DOMAIN out : out[i].kind \in {"success", "error"} }) = 1

\* C4: offline_convert(a, f, t) returns a * table[f] / table[t] for every pair
\* of enumerated codes, and leaves the rate table as it was; 1 USD is
\* 1/0.0033 PKR and 100 EUR are 100 * 1.08 / 0.0068 JPY.
C4_OfflineConvertViaUSD ==
    /\ rates_table = OFFLINE_RATES
    /\ pc = "returned" =>
         /\ converted = Ok(ViaUSD(amount, from_curr, to_curr))
         /\ (amount = Num(1, 1) /\ from_curr = "USD" /\ to_curr = "PKR")
               => converted.val = Num(10000, 33)
         /\ (amount = Num(100, 1) /\ from_curr = "EUR" /\ to_curr = "JPY")
               => converted.val = Num(1080000, 68)

\* C4 witness: 100 EUR converted to JPY.
C4_Witness ==
    /\ pc = "returned" /\ amount = Num(100, 1) /\ from_curr = "EUR" /\ to_curr = "JPY"
    /\ converted.ok /\ converted.val = Num(270000, 17)

\* C5: a successful try_live_table returns 26 rows, one per enumerated code in
\* order, each a number or the unavailable marker (None).
C5_SnapshotComplete ==
    (pc = "returned" /\ table_result.ok) =>
        LET rows == table_result.val.rows IN
        /\ Len(rows) = 26
        /\ \A i \in 1..Len(rows) : i <= Len(CURRENCIES) /\ rows[i][1] = CURRENCIES[i]
        /\ { rows[i][1] : i \in 1..Len(rows) } = Codes
        /\ Cardinality(Codes) = 26
        /\ \A i \in 1..Len(rows) : IsNum(rows[i][2]) \/ rows[i][2] = None

\* C5 witness: a successful snapshot holding both a number and an unavailable row.
C5_Witness ==
    /\ pc = "returned" /\ table_result.ok
    /\ \E i, j \in 1..Len(table_result.val.rows) :
         /\ table_result.val.rows[i][2] = None
         /\ table_result.val.rows[j][1] # from_curr
         /\ IsNum(table_result.val.rows[j][2])

\* what the answer holds for code c: Absent when the mapping or the key is missing
RateIn(data, c) == IF data.rates = "dict" THEN data.map[c] ELSE Absent

\* C8 as stated: the base row is the amount; a code absent from the mapping is
\* unavailable and does not fail the call; every other code's row is the
\* amount times the returned rate.
C8_RowsAsStated ==
    (pc = "returned" /\ table_result.ok) =>
        \A i \in 1..Len(CURRENCIES) :
            LET c   == CURRENCIES[i]
                val == table_result.val.rows[i][2]
                r   == RateIn(latest_data, c)
            IN  IF c = from_curr THEN val = amount
                ELSE IF r = Absent THEN val = None
                ELSE IsNum(r) /\ val = Mul(amount, r)

\* C8 amended: the base row is the amount whatever the mapping holds for the
\* base; a code that is absent from the mapping or mapped to null is
\* unavailable; every other code's row is the amount times the returned rate;
\* and the call succeeds whenever the answer is an object whose mapping is
\* missing or an object and holds no non-numeric rate for a code other than
\* the base.
C8_RowsAbsentOrNull ==
    /\ (pc = "returned" /\ table_result.ok) =>
         \A i \in 1..Len(CURRENCIES) :
            LET c   == CURRENCIES[i]
                val == table_result.val.rows[i][2]
                r   == RateIn(latest_data, c)
            IN  IF c = from_curr THEN val = amount
                ELSE IF r \in {Absent, None} THEN val = None
                ELSE IsNum(r) /\ val = Mul(amount, r)
    /\ (pc = "returned" /\ latest_data.kind = "dict" /\ latest_data.rates # "null"
          /\ \A c \in Codes \ {from_curr} : RateIn(latest_data, c) # Str)
       => table_result.ok

\* C8 witness: a successful snapshot whose mapping lacks the base and another
\* code, and nulls a third.
C8_Witness ==
    /\ pc = "returned" /\ table_result.ok /\ amount = Num(100, 1)
    /\ RateIn(latest_data, from_curr) = Absent
    /\ \E c, d \in Codes \ {from_curr} :
         /\ RateIn(latest_data, c) = Absent
         /\ RateIn(latest_data, d) = None
    /\ \E i \in 1..Len(CURRENCIES) :
         /\ CURRENCIES[i] # from_curr
         /\ table_result.val.rows[i][2] = Mul(amount, LiveRateOf(CURRENCIES[i]))

\* C6: no run ends in an uncaught exception, and every failed live lookup is
\* turned into a message: a failed live conversion and a failed live table
\* each leave a warning, followed by the offline value or table.
C6_FailuresCaught ==
    /\ ~fault
    /\ (ConvertBlockDone /\ Called("try_live_convert raised") # {})
         => /\ Shown("warning", "live") # {}
            /\ Shown("success", "offline") # {} \/ Shown("error", "both") # {}
    /\ (pc = "idle" /\ Called("try_live_table") # {} /\ ~table_result.ok)
         => /\ Shown("warning", "live") # {}
            /\ Shown("table", "offline") # {}

\* C6 witness: the live conversion and the live table both failed, and the
\* table was built from the offline rates.
C6_Witness ==
    /\ pc = "idle" /\ ~fault /\ convert_btn /\ show_table /\ ~use_offline_only
    /\ Called("try_live_convert raised") # {}
    /\ Called("try_live_table") # {} /\ ~table_result.ok
    /\ Called("offline_table") # {}
    /\ Shown("table", "offline") # {}

\* C7: the cache expires an answer after the configured cache duration: an
\* answer as old as cache_minutes or older is never served from the cache, and
\* no remote call replaces an answer that is younger than cache_minutes.
C7_ExpiryFollowsSetting ==
    \A i \in DOMAIN log :
        /\ log[i].op \in {"cached convert", "cached latest"}
              => log[i].age < cache_minutes
        /\ log[i].op \in {"GET convert", "GET latest"}
              => (log[i].age = -1 \/ log[i].age >= cache_minutes)

\* C9: a conversion enters the live lookup at most once, and calls
\* offline_convert only in offline-only mode or after the live attempt, and
\* never once a live value has been reported.
C9_SingleAttemptThenOffline ==
    /\ Cardinality(Called("try_live_convert")) <= 1
    /\ Cardinality(Called("GET convert")) <= 1
    /\ Called("offline_convert") # {} =>
         /\ use_offline_only \/ Called("try_live_convert") # {}
         /\ \A i \in Called("offline_convert"), j \in Called("try_live_convert") : j < i
         /\ Shown("success", "live") = {}

\* C10: when the last live lookup failed, the next live lookup of the same
\* amount and pair issues the remote call again.
C10_FreshAttemptAfterFailure ==
    [][ (pc = "live" /\ prev_failed = Request)
           => \E i \in DOMAIN log' : log'[i].op = "GET convert" ]_vars

====
